---------------------------- MODULE Spec2Model ----------------------------
(***************************************************************************)
(* The maze POMDP domain model of pomdp_py.problems.maze: the wall         *)
(* geometry (MazeMap), the slip transition model, the deterministic        *)
(* observation model, the reward model and the environment that holds the  *)
(* true state.                                                             *)
(*                                                                         *)
(* Probabilities are Python floats in the program.  Here they are exact    *)
(* fixed-point numbers in units of 1/ONE (tenths): slip_prob = 0.1 is 1,   *)
(* main_prob = 1.0 - 2 * slip_prob is ONE - 2 * slip_prob.  A uniform draw *)
(* that falls strictly between two grid points g and g + 1 takes the same  *)
(* branch of "rand <= cumulative_prob" as the draw g + 1, so draws on the  *)
(* grid 0 .. ONE stand for every draw in [0, 1].                           *)
(***************************************************************************)
EXTENDS Integers, Sequences, FiniteSets, TLC

VARIABLES
    maze_map,    \* the MazeMap shared by the models: [start, goal, walls]
    slip_prob,   \* TransitionModel.slip_prob, in units of 1/ONE
    state,       \* MazeEnvironment.state: [position, orientation]
    ret,         \* the last call: its name, its arguments and what it returned
    rng,         \* the generator of the random module, shared by every sample
    rollouts,    \* the planner's rollouts: of each, where it is and what it got
    driver       \* the loop of solve(): its step, total reward and history

vars == <<maze_map, slip_prob, state, ret, rng, rollouts, driver>>

---------------------------------------------------------------------------
(* Value types                                                             *)

\* State.ORIENTATIONS, and the order has_wall is asked in by the models
ORIENTATIONS == <<"North", "East", "South", "West">>

Directions == {"North", "East", "South", "West"}

\* State.__init__ for an orientation given by name
State(position, orientation) ==
    [position |-> position, orientation |-> orientation]

\* get_all_actions(): MoveNorth(), MoveSouth(), MoveEast(), MoveWest(), each
\* a MazeAction identified by its name
get_all_actions == <<[name |-> "North"], [name |-> "South"],
                     [name |-> "East"], [name |-> "West"]>>

Actions == {get_all_actions[i] : i \in 1..Len(get_all_actions)}

\* Observation.__init__: the walls tuple, the orientation and the location
\* ("None" stands for Python's None)
Observation(walls, orientation, location) ==
    [walls |-> walls, orientation |-> orientation, location |-> location]

\* Observation.is_goal: the rule on the orientation and the four wall flags
is_goal(self) ==
    /\ self.orientation = "South"
    /\ self.walls[1]
    /\ self.walls[2]
    /\ ~self.walls[3]
    /\ self.walls[4]

\* Observation.is_start: the rule on the orientation and the four wall flags
is_start(self) ==
    /\ self.orientation = "North"
    /\ self.walls[2]
    /\ self.walls[3]
    /\ ~self.walls[1]
    /\ ~self.walls[4]

\* an exception leaving a call
Raise(kind) == [raised |-> kind]

\* Arguments of the constructors come with their Python type: an orientation
\* is [str |-> name], [int |-> i] or [other |-> t] (None, a float); a walls
\* argument is [type |-> "tuple", items |-> <<...>>], its type being "tuple",
\* "list" or another container.

\* State.__init__ taking ORIENTATIONS[orientation] without the test of the
\* index, as Python indexes a list, from either end
State__init__any_index(position, orientation) ==
    IF Len(position) # 2 THEN Raise("ValueError")
    ELSE IF "str" \in DOMAIN orientation
    THEN IF orientation.str \notin {ORIENTATIONS[i] : i \in 1..4}
         THEN Raise("ValueError")
         ELSE State(position, orientation.str)
    ELSE IF "int" \in DOMAIN orientation
    THEN IF orientation.int \notin -4..3
         THEN Raise("IndexError")
         ELSE State(position, ORIENTATIONS[(orientation.int % 4) + 1])
    ELSE Raise("ValueError")

\* State.__init__: the length of the position is tested, then the orientation
\* is normalised, a name being kept and an index 0..3 replaced by its name
State__init__(position, orientation) ==
    IF Len(position) # 2 THEN Raise("ValueError")
    ELSE IF "str" \in DOMAIN orientation
    THEN IF orientation.str \notin {ORIENTATIONS[i] : i \in 1..4}
         THEN Raise("ValueError")
         ELSE State(position, orientation.str)
    ELSE IF "int" \in DOMAIN orientation
    THEN IF orientation.int \notin {0, 1, 2, 3}
         THEN Raise("ValueError")
         ELSE State(position, ORIENTATIONS[orientation.int + 1])
    ELSE Raise("ValueError")

\* Observation.__init__ with its tests: walls a tuple or list of length 4, the
\* orientation one of the four names
Observation__init__(walls, orientation, location) ==
    IF walls.type \notin {"tuple", "list"} \/ Len(walls.items) # 4
    THEN Raise("ValueError")
    ELSE IF ~("str" \in DOMAIN orientation
              /\ orientation.str \in {"North", "East", "South", "West"})
    THEN Raise("ValueError")
    ELSE Observation(walls.items, orientation.str, location)

---------------------------------------------------------------------------
(* Geometry: MazeMap                                                       *)

Seg(x1, y1, x2, y2) == <<<<x1, y1>>, <<x2, y2>>>>

MazeMap(start, goal, walls) ==
    [start |-> start, goal |-> goal, walls |-> walls]

\* MazeMap.create_example_maze(): the 11 x 7 maze of the paper
create_example_maze ==
    MazeMap(<<5, 6>>, <<5, 2>>,
      [d \in Directions |->
        CASE d = "North" ->
               << Seg(0,0,10,0),
                  Seg(0,1,1,1), Seg(3,1,8,1), Seg(0,2,3,2), Seg(6,2,8,2),
                  Seg(10,2,10,2), Seg(0,3,2,3), Seg(4,3,5,3), Seg(8,3,8,3),
                  Seg(0,4,0,4), Seg(3,4,5,4), Seg(8,4,10,4), Seg(1,5,2,5),
                  Seg(4,5,5,5), Seg(8,5,8,5) >>
          [] d = "South" ->
               << Seg(0,7,10,7),
                  Seg(0,2,1,2), Seg(3,2,8,2), Seg(0,3,3,3), Seg(6,3,8,3),
                  Seg(10,3,10,3), Seg(0,4,2,4), Seg(4,4,5,4), Seg(8,4,8,4),
                  Seg(0,5,0,5), Seg(3,5,5,5), Seg(8,5,10,5), Seg(1,6,2,6),
                  Seg(4,6,5,6), Seg(8,6,8,6) >>
          [] d = "East" ->
               << Seg(11,0,11,7),
                  Seg(1,1,1,2), Seg(3,1,3,1), Seg(5,1,5,2), Seg(6,1,6,1),
                  Seg(9,1,9,2), Seg(10,1,10,2), Seg(2,3,2,3), Seg(4,3,4,4),
                  Seg(7,3,7,3), Seg(9,3,9,3), Seg(1,4,1,4), Seg(3,4,3,5),
                  Seg(6,4,6,4), Seg(9,5,9,6), Seg(10,5,10,5), Seg(2,6,2,6),
                  Seg(5,6,5,6) >>
          [] d = "West" ->
               << Seg(0,0,0,7),
                  Seg(2,1,2,2), Seg(4,1,4,1), Seg(6,1,6,2), Seg(7,1,7,1),
                  Seg(10,1,10,2), Seg(1,1,1,1), Seg(3,3,3,3), Seg(5,3,5,4),
                  Seg(8,3,8,3), Seg(10,3,10,3), Seg(2,4,2,4), Seg(4,4,4,5),
                  Seg(7,4,7,4), Seg(10,5,10,6), Seg(1,5,1,5), Seg(3,6,3,6),
                  Seg(6,6,6,6) >>])

\* _validate_walls rejecting the dictionary only when no key is a direction
_validate_walls_any(walls) ==
    IF ~(\E d \in DOMAIN walls : d \in {"North", "East", "South", "West"})
    THEN Raise("ValueError")
    ELSE [returned |-> "None"]

\* MazeMap._validate_walls: every key is one of the four directions
_validate_walls(walls) ==
    LET valid_dirs == {"North", "East", "South", "West"}
    IN  IF ~(\A d \in DOMAIN walls : d \in valid_dirs)
        THEN Raise("ValueError")
        ELSE [returned |-> "None"]

\* MazeMap.__init__: the fields are set and the walls validated
MazeMap__init__(start, goal, walls) ==
    IF "raised" \in DOMAIN _validate_walls(walls)
    THEN _validate_walls(walls)
    ELSE MazeMap(start, goal, walls)

min(a, b) == IF a <= b THEN a ELSE b
max(a, b) == IF a >= b THEN a ELSE b

\* _is_on_segment without the normalisation of the corners: the first corner
\* is taken for the smaller one
_is_on_segment_unordered(position, segment, direction) ==
    /\ segment[1][1] <= position[1] /\ position[1] <= segment[2][1]
    /\ segment[1][2] <= position[2] /\ position[2] <= segment[2][2]

\* MazeMap._is_on_segment: the position lies in the bounding box of the segment
_is_on_segment(position, segment, direction) ==
    LET x == position[1]
        y == position[2]
        x1 == segment[1][1]
        y1 == segment[1][2]
        x2 == segment[2][1]
        y2 == segment[2][2]
        min_x == min(x1, x2)
        max_x == max(x1, x2)
        min_y == min(y1, y2)
        max_y == max(y1, y2)
    IN  (min_x <= x /\ x <= max_x) /\ (min_y <= y /\ y <= max_y)

\* MazeMap.has_wall: some segment registered under the direction holds the position
has_wall(m, position, direction) ==
    IF direction \notin DOMAIN m.walls
    THEN FALSE
    ELSE \E i \in 1..Len(m.walls[direction]) :
            _is_on_segment(position, m.walls[direction][i], direction)

\* get_valid_actions with the test inverted: the directions that have a wall
get_valid_actions_walled(m, position, orientation) ==
    SelectSeq(<<"North", "East", "South", "West">>,
              LAMBDA direction : has_wall(m, position, direction))

\* MazeMap.get_valid_actions: the directions without a wall, in the order
\* North, East, South, West; the orientation is an argument the code never reads
get_valid_actions(m, position, orientation) ==
    SelectSeq(<<"North", "East", "South", "West">>,
              LAMBDA direction : ~has_wall(m, position, direction))


---------------------------------------------------------------------------
(* Transition model                                                        *)

\* the float 1.0 of "1.0 - 2 * slip_prob", in the fixed-point unit (tenths)
ONE == 10

\* TransitionModel.__init__ taking one slip direction into account, not two
TransitionModel_one_slip(slip, m) ==
    [slip_prob |-> slip, main_prob |-> ONE - slip, maze_map |-> m]

\* TransitionModel.__init__
TransitionModel(slip, m) ==
    [slip_prob |-> slip, main_prob |-> ONE - 2 * slip, maze_map |-> m]

\* _get_perpendicular_directions with the North/South rows holding the
\* directions of the East/West rows
_get_perpendicular_directions_parallel(direction) ==
    <<"North", "South">>

\* TransitionModel._get_perpendicular_directions
_get_perpendicular_directions(direction) ==
    CASE direction = "North" -> <<"East", "West">>
      [] direction = "South" -> <<"East", "West">>
      [] direction = "East" -> <<"North", "South">>
      [] direction = "West" -> <<"North", "South">>

\* _move_in_direction with the y axis pointing up: North is y + 1
_move_in_direction_y_up(position, direction) ==
    LET x == position[1]
        y == position[2]
    IN  CASE direction = "North" -> <<x, y + 1>>
          [] direction = "South" -> <<x, y - 1>>
          [] direction = "East" -> <<x + 1, y>>
          [] direction = "West" -> <<x - 1, y>>

\* _move_in_direction clamped at the edge x = 0, y = 0 of the grid
_move_in_direction_clamped(position, direction) ==
    LET x == position[1]
        y == position[2]
    IN  CASE direction = "North" -> <<x, max(y - 1, 0)>>
          [] direction = "South" -> <<x, y + 1>>
          [] direction = "East" -> <<x + 1, y>>
          [] direction = "West" -> <<max(x - 1, 0), y>>

\* TransitionModel._move_in_direction
_move_in_direction(position, direction) ==
    LET x == position[1]
        y == position[2]
    IN  CASE direction = "North" -> <<x, y - 1>>
          [] direction = "South" -> <<x, y + 1>>
          [] direction = "East" -> <<x + 1, y>>
          [] direction = "West" -> <<x - 1, y>>

\* the step of a model that consults its map: no move into a wall
move_unless_wall(self, position, direction) ==
    IF "walls" \in DOMAIN self.maze_map
         /\ has_wall(self.maze_map, position, direction)
    THEN position
    ELSE _move_in_direction(position, direction)

\* _get_transition_outcomes with moves blocked by the walls of maze_map
_get_transition_outcomes_blocked(self, s, action) ==
    LET perpendicular_dirs == _get_perpendicular_directions(action.name)
    IN  <<<<self.main_prob,
            State(move_unless_wall(self, s.position, action.name),
                  s.orientation)>>>> \o
        [i \in 1..Len(perpendicular_dirs) |->
            <<self.slip_prob,
              State(move_unless_wall(self, s.position, perpendicular_dirs[i]),
                    s.orientation)>>]

\* TransitionModel._get_transition_outcomes: the list of (probability, next
\* state): the intended direction first, then the two perpendicular ones
_get_transition_outcomes(self, s, action) ==
    LET action_dir == action.name
        perpendicular_dirs == _get_perpendicular_directions(action_dir)
        next_pos_main == _move_in_direction(s.position, action_dir)
        next_state_main == State(next_pos_main, s.orientation)
    IN  <<<<self.main_prob, next_state_main>>>> \o
        [i \in 1..Len(perpendicular_dirs) |->
            <<self.slip_prob,
              State(_move_in_direction(s.position, perpendicular_dirs[i]),
                    s.orientation)>>]

\* probability comparing the positions of the states only
TransitionModel_probability_by_position(self, next_state, s, action) ==
    LET outcomes == _get_transition_outcomes(self, s, action)
        matching == {i \in 1..Len(outcomes) :
                        next_state.position = outcomes[i][2].position}
    IN  IF matching = {}
        THEN 0
        ELSE outcomes[CHOOSE i \in matching : \A j \in matching : i <= j][1]

\* TransitionModel.probability: the probability of the first outcome equal to
\* next_state, 0.0 when there is none
TransitionModel_probability(self, next_state, s, action) ==
    LET outcomes == _get_transition_outcomes(self, s, action)
        matching == {i \in 1..Len(outcomes) : next_state = outcomes[i][2]}
    IN  IF matching = {}
        THEN 0
        ELSE outcomes[CHOOSE i \in matching : \A j \in matching : i <= j][1]

\* the loop of sample with the strict test "rand < cumulative_prob"
RECURSIVE sample_loop_strict(_, _, _, _)
sample_loop_strict(outcomes, i, cumulative_prob, rand) ==
    IF i > Len(outcomes)
    THEN [next_state |-> outcomes[Len(outcomes)][2], from |-> "fallback"]
    ELSE LET cumulative == cumulative_prob + outcomes[i][1]
         IN  IF rand < cumulative
             THEN [next_state |-> outcomes[i][2], from |-> "loop"]
             ELSE sample_loop_strict(outcomes, i + 1, cumulative, rand)

\* the loop of TransitionModel.sample from its i-th outcome on, and the
\* statement after the loop
RECURSIVE sample_loop(_, _, _, _)
sample_loop(outcomes, i, cumulative_prob, rand) ==
    IF i > Len(outcomes)
    THEN [next_state |-> outcomes[Len(outcomes)][2], from |-> "fallback"]
    ELSE LET cumulative == cumulative_prob + outcomes[i][1]
         IN  IF rand <= cumulative
             THEN [next_state |-> outcomes[i][2], from |-> "loop"]
             ELSE sample_loop(outcomes, i + 1, cumulative, rand)

\* TransitionModel.sample, rand being the value random.uniform(0, 1) gives
TransitionModel_sample(self, s, action, rand) ==
    sample_loop(_get_transition_outcomes(self, s, action), 1, 0, rand)

\* get_all_states returning the empty list its comment speaks of
get_all_states_empty(self) == [returned |-> <<>>]

\* TransitionModel.get_all_states
get_all_states(self) == Raise("NotImplementedError")

---------------------------------------------------------------------------
(* Observation model                                                       *)

\* ObservationModel.__init__
ObservationModel(m) == [maze_map |-> m]

\* _get_observation looking for the start before the goal
_get_observation_start_first(self, s) ==
    LET position == s.position
        walls == << has_wall(self.maze_map, position, "North"),
                    has_wall(self.maze_map, position, "East"),
                    has_wall(self.maze_map, position, "South"),
                    has_wall(self.maze_map, position, "West") >>
        location == IF position = self.maze_map.start THEN "Start"
                    ELSE IF position = self.maze_map.goal THEN "Goal"
                    ELSE "None"
    IN  Observation(walls, s.orientation, location)

\* ObservationModel._get_observation: the four wall flags at the position, the
\* state's orientation, and the landmark found by comparing positions
_get_observation(self, s) ==
    LET position == s.position
        orientation == s.orientation
        walls == << has_wall(self.maze_map, position, "North"),
                    has_wall(self.maze_map, position, "East"),
                    has_wall(self.maze_map, position, "South"),
                    has_wall(self.maze_map, position, "West") >>
        location == IF position = self.maze_map.goal THEN "Goal"
                    ELSE IF position = self.maze_map.start THEN "Start"
                    ELSE "None"
    IN  Observation(walls, orientation, location)

\* ObservationModel.sample
ObservationModel_sample(self, next_state, action) ==
    _get_observation(self, next_state)

\* Observation.__eq__ leaving the location out
Observation_eq_no_location(o1, o2) ==
    /\ o1.walls = o2.walls
    /\ o1.orientation = o2.orientation

\* Observation.__eq__
Observation_eq(o1, o2) ==
    /\ o1.walls = o2.walls
    /\ o1.orientation = o2.orientation
    /\ o1.location = o2.location

\* ObservationModel.probability: 1.0 or 0.0, in units of 1/ONE
ObservationModel_probability(self, observation, next_state, action) ==
    LET expected_obs == _get_observation(self, next_state)
    IN  IF Observation_eq(observation, expected_obs) THEN ONE ELSE 0

\* ObservationModel.get_all_observations
get_all_observations(self) == Raise("NotImplementedError")

---------------------------------------------------------------------------
(* Reward model                                                            *)

\* the defaults of RewardModel.__init__ and MazeProblem.__init__
goal_reward == 10
step_penalty == 1
wall_penalty == 5

\* RewardModel.__init__
RewardModel(m, goal, step, wall) ==
    [maze_map |-> m, goal_reward |-> goal, step_penalty |-> step,
     wall_penalty |-> wall]

\* _reward_func testing for the blocked move before the goal
_reward_func_wall_first(self, s, action, next_state) ==
    IF next_state.position = s.position
    THEN -self.wall_penalty
    ELSE IF next_state.position = self.maze_map.goal
         THEN self.goal_reward
         ELSE -self.step_penalty

\* RewardModel._reward_func
_reward_func(self, s, action, next_state) ==
    IF next_state.position = self.maze_map.goal
    THEN self.goal_reward
    ELSE IF next_state.position = s.position
         THEN -self.wall_penalty
         ELSE -self.step_penalty

\* RewardModel.sample
RewardModel_sample(self, s, action, next_state) ==
    _reward_func(self, s, action, next_state)

---------------------------------------------------------------------------
(* Bounds of the model and the mazes it is checked on                      *)

\* largest x of a corner point of a test maze's wall segment
MaxCoord == 1

XCoords == 0..MaxCoord
YCoords == 0..1

Points == XCoords \X YCoords

\* every segment over the points, its two corners in either order
Segments == Points \X Points

\* the lists of at most two segments
SegLists == {<<>>} \cup {<<s>> : s \in Segments}
                   \cup {<<s, t>> : s \in Segments, t \in Segments}

\* positions the geometry is asked about: the points and the cells around them
QueryPositions == (-1..(MaxCoord + 1)) \X (-1..2)

\* walls dictionaries: no key at all; the single key d0 with the list L; and
\* all four keys, with L under d0 and one fixed segment under the other three
WallDicts ==
    {[d \in {} |-> <<>>]}
    \cup {[d \in {d0} |-> L] : d0 \in Directions, L \in SegLists}
    \cup {[d \in Directions |-> IF d = d0 THEN L ELSE <<Seg(1, 1, 0, 0)>>] :
              d0 \in Directions, L \in SegLists}

GeometryMazes ==
    {create_example_maze}
    \cup {MazeMap(<<0, 0>>, <<1, 1>>, w) : w \in WallDicts}

\* the slip probability TransitionModel.__init__ defaults to, in units of 1/ONE
DefaultSlip == 1

---------------------------------------------------------------------------
(* Geometry queries                                                        *)

\* no planner and no driver is running: the generator is untouched, there is
\* no rollout and solve() has not been called
NoRun ==
    /\ rng = [seed |-> 0, x |-> 0]
    /\ rollouts = <<>>
    /\ driver = [pc |-> "none"]

\* no call is in progress: the caller has taken the last result
NoCall == [op |-> "none"]

\* the caller takes the result of the call and goes on
Return ==
    /\ ret # NoCall
    /\ ret' = NoCall
    /\ UNCHANGED <<maze_map, slip_prob, state, rng, rollouts, driver>>

InitGeometry ==
    /\ maze_map \in GeometryMazes
    /\ slip_prob = DefaultSlip
    /\ state = State(maze_map.start, "North")
    /\ ret = NoCall
    /\ NoRun

\* has_wall written with walls.setdefault(direction, []): a direction that is
\* not a key of the dictionary is added to it with no segment
HasWall_setdefault(position, direction) ==
    /\ ret = NoCall
    /\ ret' = [op |-> "has_wall", position |-> position, direction |-> direction,
               result |-> has_wall(maze_map, position, direction)]
    /\ maze_map' = IF direction \in DOMAIN maze_map.walls THEN maze_map
                   ELSE [maze_map EXCEPT !.walls =
                            [d \in DOMAIN maze_map.walls \cup {direction} |->
                                IF d = direction THEN <<>> ELSE maze_map.walls[d]]]
    /\ UNCHANGED <<slip_prob, state, rng, rollouts, driver>>

HasWall(position, direction) ==
    /\ ret = NoCall
    /\ ret' = [op |-> "has_wall", position |-> position, direction |-> direction,
               result |-> has_wall(maze_map, position, direction)]
    /\ UNCHANGED <<maze_map, slip_prob, state, rng, rollouts, driver>>

GetValidActions(position, orientation) ==
    /\ ret = NoCall
    /\ ret' = [op |-> "get_valid_actions", position |-> position,
               orientation |-> orientation,
               result |-> get_valid_actions(maze_map, position, orientation)]
    /\ UNCHANGED <<maze_map, slip_prob, state, rng, rollouts, driver>>

\* the positions asked about: the test grid, and for the example maze its whole
\* 11 x 7 grid with the cells around it
PositionsOf(m) ==
    IF m = create_example_maze THEN (-1..11) \X (-1..7) ELSE QueryPositions

NextGeometry ==
    \/ /\ ret = NoCall
       /\ \E position \in PositionsOf(maze_map), direction \in Directions :
             HasWall(position, direction)
    \/ /\ ret = NoCall
       /\ \E position \in PositionsOf(maze_map), orientation \in Directions :
             GetValidActions(position, orientation)
    \/ Return

SpecGeometry == InitGeometry /\ [][NextGeometry]_vars

\* the set of elements of a sequence
Range(seq) == {seq[i] : i \in 1..Len(seq)}

\* the position lies between the two corners of the region, whichever comes first
InRegion(position, region) ==
    LET p1 == region[1]
        p2 == region[2]
    IN  /\ \/ (p1[1] <= position[1] /\ position[1] <= p2[1])
           \/ (p2[1] <= position[1] /\ position[1] <= p1[1])
        /\ \/ (p1[2] <= position[2] /\ position[2] <= p2[2])
           \/ (p2[2] <= position[2] /\ position[2] <= p1[2])

RegionsUnder(m, direction) ==
    IF direction \in DOMAIN m.walls THEN Range(m.walls[direction]) ELSE {}

\* C1: has_wall(position, d) is true exactly when some region registered under d
\* holds the position in its inclusive bounding box, whichever corner is given
\* first; it is false when no region is registered under d.
C1_HasWallIffInRegion ==
    ret.op = "has_wall" =>
        /\ ret.result <=> \E region \in RegionsUnder(maze_map, ret.direction) :
                              InRegion(ret.position, region)
        /\ RegionsUnder(maze_map, ret.direction) = {} => ~ret.result

\* a wall found in a region whose corners are given in decreasing order
C1_Witness ==
    /\ ret.op = "has_wall"
    /\ ret.result
    /\ \A region \in RegionsUnder(maze_map, ret.direction) :
          InRegion(ret.position, region) =>
              region[1][1] > region[2][1] /\ region[1][2] > region[2][2]

\* C2: get_valid_actions(position, orientation) holds exactly the directions d
\* with no wall at the position, each once, whatever the orientation.
C2_ValidActionsAreWallFree ==
    ret.op = "get_valid_actions" =>
        /\ Range(ret.result) =
              {d \in Directions : ~has_wall(maze_map, ret.position, d)}
        /\ Len(ret.result) = Cardinality(Range(ret.result))
        /\ \A o \in Directions :
              get_valid_actions(maze_map, ret.position, o) = ret.result

\* a position with a wall on some sides and none on others
C2_Witness ==
    /\ ret.op = "get_valid_actions"
    /\ Len(ret.result) = 2
    /\ ret.orientation = "West"


---------------------------------------------------------------------------
(* Transition queries                                                      *)

\* largest slip probability the transition model is built with, in units of
\* 1/ONE; beyond ONE/2 the constructor still accepts it
MaxSlip == 6

\* how far, in cells, a queried next state may lie from the state
MaxOffset == 1

\* a TransitionModel built without a map: maze_map=None
NoMaze == [none |-> TRUE]

\* the states the models are asked about
QueryStates ==
    {State(p, o) : p \in Points \cup {<<5, 6>>, <<5, 2>>}, o \in Directions}

\* the next states asked about for a state: every cell around it, itself
\* included, under every orientation
NextStatesAround(s) ==
    {State(<<s.position[1] + dx, s.position[2] + dy>>, o) :
        dx \in -MaxOffset..MaxOffset, dy \in -MaxOffset..MaxOffset,
        o \in Directions}

\* the values of random.uniform(0, 1), on the grid of the fixed-point unit
Draws == 0..ONE

InitTransition ==
    /\ maze_map \in {create_example_maze, NoMaze}
    /\ slip_prob \in 0..MaxSlip
    /\ state = State(<<5, 6>>, "North")
    /\ ret = NoCall
    /\ NoRun

TransitionOutcomes(s, action) ==
    /\ ret = NoCall
    /\ ret' = [op |-> "_get_transition_outcomes", state |-> s, action |-> action,
               result |-> _get_transition_outcomes(
                              TransitionModel(slip_prob, maze_map), s, action)]
    /\ UNCHANGED <<maze_map, slip_prob, state, rng, rollouts, driver>>

TransitionProbability(next_state, s, action) ==
    /\ ret = NoCall
    /\ ret' = [op |-> "TransitionModel.probability", next_state |-> next_state,
               state |-> s, action |-> action,
               result |-> TransitionModel_probability(
                              TransitionModel(slip_prob, maze_map),
                              next_state, s, action)]
    /\ UNCHANGED <<maze_map, slip_prob, state, rng, rollouts, driver>>

TransitionSample(s, action, rand) ==
    /\ ret = NoCall
    /\ ret' = [op |-> "TransitionModel.sample", state |-> s, action |-> action,
               rand |-> rand,
               result |-> TransitionModel_sample(
                              TransitionModel(slip_prob, maze_map),
                              s, action, rand)]
    /\ UNCHANGED <<maze_map, slip_prob, state, rng, rollouts, driver>>

NextTransition ==
    \/ /\ ret = NoCall
       /\ \E s \in QueryStates, action \in Actions : TransitionOutcomes(s, action)
    \/ /\ ret = NoCall
       /\ \E s \in QueryStates, action \in Actions :
             \E next_state \in NextStatesAround(s) :
                 TransitionProbability(next_state, s, action)
    \/ /\ ret = NoCall
       /\ \E s \in QueryStates, action \in Actions, rand \in Draws :
             TransitionSample(s, action, rand)
    \/ Return

SpecTransition == InitTransition /\ [][NextTransition]_vars

\* the cell one step from the position: North is y - 1, South y + 1, East
\* x + 1, West x - 1
Neighbour(position, d) ==
    << position[1] + (IF d = "East" THEN 1 ELSE IF d = "West" THEN -1 ELSE 0),
       position[2] + (IF d = "South" THEN 1 ELSE IF d = "North" THEN -1 ELSE 0) >>

Opposite(d) ==
    CASE d = "North" -> "South" [] d = "South" -> "North"
      [] d = "East" -> "West" [] d = "West" -> "East"

\* the two directions perpendicular to d, in the order the outcomes list them
Perpendicular(d) ==
    IF d \in {"North", "South"} THEN <<"East", "West">> ELSE <<"North", "South">>

\* the three outcomes the specification gives for (s, action) under slip
ExpectedOutcomes(slip, s, action) ==
    << <<ONE - 2 * slip, [position |-> Neighbour(s.position, action.name),
                          orientation |-> s.orientation]>>,
       <<slip, [position |-> Neighbour(s.position, Perpendicular(action.name)[1]),
                orientation |-> s.orientation]>>,
       <<slip, [position |-> Neighbour(s.position, Perpendicular(action.name)[2]),
                orientation |-> s.orientation]>> >>

RECURSIVE SumProbability(_, _, _, _)
SumProbability(self, S, s, action) ==
    IF S = {} THEN 0
    ELSE LET ns == CHOOSE x \in S : TRUE
         IN  TransitionModel_probability(self, ns, s, action)
             + SumProbability(self, S \ {ns}, s, action)

\* C3: _get_transition_outcomes yields three outcomes with pairwise distinct
\* next states: the intended cell with probability 1 - 2*slip and the two
\* perpendicular cells with probability slip each; the three probabilities
\* sum to 1, and so does probability summed over the next states.
C3_ThreeOutcomesSumToOne ==
    ret.op = "_get_transition_outcomes" =>
        LET out == ret.result
        IN  /\ Len(out) = 3
            /\ \A i, j \in 1..3 : i # j => out[i][2] # out[j][2]
            /\ out[1] = ExpectedOutcomes(slip_prob, ret.state, ret.action)[1]
            /\ {out[2], out[3]} =
                  {ExpectedOutcomes(slip_prob, ret.state, ret.action)[2],
                   ExpectedOutcomes(slip_prob, ret.state, ret.action)[3]}
            /\ out[1][1] + out[2][1] + out[3][1] = ONE
            /\ SumProbability(TransitionModel(slip_prob, maze_map),
                              NextStatesAround(ret.state), ret.state,
                              ret.action) = ONE

\* the outcomes of an East move under the default slip probability
C3_Witness ==
    /\ ret.op = "_get_transition_outcomes"
    /\ ret.action.name = "East"
    /\ slip_prob = DefaultSlip
    /\ ret.result[1][1] = 8

\* C4: probability(next_state, state, action) is the probability of the
\* outcome next_state equals, and 0 for every other next state: so for another
\* orientation, for the state's own position and for the opposite cell.
C4_ProbabilityOfOutcomeElseZero ==
    ret.op = "TransitionModel.probability" =>
        LET out == ExpectedOutcomes(slip_prob, ret.state, ret.action)
        IN  /\ \A i \in 1..3 : ret.next_state = out[i][2] => ret.result = out[i][1]
            /\ (\A i \in 1..3 : ret.next_state # out[i][2]) => ret.result = 0
            /\ ret.next_state.orientation # ret.state.orientation
                  => ret.result = 0
            /\ ret.next_state.position = ret.state.position => ret.result = 0
            /\ ret.next_state.position =
                  Neighbour(ret.state.position, Opposite(ret.action.name))
                  => ret.result = 0

\* the intended cell asked about under another orientation
C4_Witness ==
    /\ ret.op = "TransitionModel.probability"
    /\ slip_prob = DefaultSlip
    /\ ret.next_state.position = Neighbour(ret.state.position, ret.action.name)
    /\ ret.next_state.orientation # ret.state.orientation
    /\ ret.result = 0

\* the cumulative probability of the first i expected outcomes
Cumulative(out, i) ==
    IF i = 1 THEN out[1][1]
    ELSE IF i = 2 THEN out[1][1] + out[2][1]
    ELSE out[1][1] + out[2][1] + out[3][1]

\* C5: sample returns, from inside its loop, the first outcome (intended,
\* first perpendicular, second perpendicular) whose cumulative probability is
\* at least the draw; the statement after the loop is never reached.
C5_SampleReturnsInLoop ==
    ret.op = "TransitionModel.sample" =>
        LET out == ExpectedOutcomes(slip_prob, ret.state, ret.action)
            reached == {i \in 1..3 : ret.rand <= Cumulative(out, i)}
        IN  /\ ret.result.from = "loop"
            /\ reached # {}
            /\ \E k \in reached :
                  /\ \A i \in reached : k <= i
                  /\ ret.result.next_state = out[k][2]

\* the draw 1.0 is answered by the last outcome, inside the loop
C5_Witness ==
    /\ ret.op = "TransitionModel.sample"
    /\ ret.rand = ONE
    /\ slip_prob = DefaultSlip
    /\ ret.result.from = "loop"
    /\ ret.result.next_state.position =
          Neighbour(ret.state.position, Perpendicular(ret.action.name)[2])


---------------------------------------------------------------------------
(* The environment: MazeEnvironment.state_transition                       *)

\* walls dictionaries of the small mazes the models are run on: none, a wall
\* on one side only, and a different segment under each of the four keys
FewWallDicts ==
    { [d \in {} |-> <<>>],
      [d \in {"East"} |-> <<Seg(1, 1, 0, 0)>>],
      [d \in Directions |->
          CASE d = "North" -> <<Seg(0, 0, MaxCoord, 0)>>
            [] d = "East" -> <<Seg(MaxCoord, 0, MaxCoord, 1)>>
            [] d = "South" -> <<Seg(MaxCoord, 1, 0, 1)>>
            [] d = "West" -> <<Seg(0, 1, 0, 0)>>] }

\* the example maze, and small mazes with the start in a corner and the goal
\* on any point, the start included
ModelMazes ==
    {create_example_maze}
    \cup {MazeMap(<<0, 0>>, g, w) : g \in Points, w \in FewWallDicts}

\* the cells the environment is stepped from: the grid of the maze
Arena(m) ==
    IF m = create_example_maze THEN (0..10) \X (0..6) ELSE Points

Init ==
    /\ maze_map \in ModelMazes
    /\ slip_prob \in 0..MaxSlip
    /\ \E o \in Directions : state = State(maze_map.start, o)
    /\ ret = NoCall
    /\ NoRun

\* state_transition storing the sampled state whatever execute is
StateTransition_always_executes(action, execute, rand) ==
    /\ ret = NoCall
    /\ state.position \in Arena(maze_map)
    /\ LET transition_model == TransitionModel(slip_prob, maze_map)
           reward_model == RewardModel(maze_map, goal_reward, step_penalty,
                                       wall_penalty)
           next_state ==
               TransitionModel_sample(transition_model, state, action, rand).next_state
           reward == RewardModel_sample(reward_model, state, action, next_state)
       IN  /\ state' = next_state
           /\ ret' = [op |-> "state_transition", action |-> action,
                      execute |-> execute, rand |-> rand, state |-> state,
                      next_state |-> next_state, result |-> reward]
    /\ UNCHANGED <<maze_map, slip_prob, rng, rollouts, driver>>

\* MazeEnvironment.state_transition(action, execute), rand being the draw of
\* transition_model.sample; the models are those MazeProblem.__init__ builds
StateTransition(action, execute, rand) ==
    /\ ret = NoCall
    /\ state.position \in Arena(maze_map)
    /\ LET transition_model == TransitionModel(slip_prob, maze_map)
           reward_model == RewardModel(maze_map, goal_reward, step_penalty,
                                       wall_penalty)
           next_state ==
               TransitionModel_sample(transition_model, state, action, rand).next_state
           reward == RewardModel_sample(reward_model, state, action, next_state)
       IN  /\ state' = IF execute THEN next_state ELSE state
           /\ ret' = [op |-> "state_transition", action |-> action,
                      execute |-> execute, rand |-> rand, state |-> state,
                      next_state |-> next_state, result |-> reward]
    /\ UNCHANGED <<maze_map, slip_prob, rng, rollouts, driver>>

Next ==
    \/ /\ ret = NoCall
       /\ \E action \in Actions, execute \in BOOLEAN, rand \in Draws :
             StateTransition(action, execute, rand)
    \/ Return

Spec == Init /\ [][Next]_vars

AnyMazes == {NoMaze, create_example_maze, maze_map}

---------------------------------------------------------------------------
(* Observation queries                                                     *)

\* every value an Observation can take
Observations ==
    {Observation(<<n, e, so, w>>, o, l) :
        n \in BOOLEAN, e \in BOOLEAN, so \in BOOLEAN, w \in BOOLEAN,
        o \in Directions, l \in {"Goal", "Start", "None"}}

InitModels ==
    /\ maze_map \in ModelMazes
    /\ slip_prob = DefaultSlip
    /\ state = State(maze_map.start, "North")
    /\ ret = NoCall
    /\ NoRun

ObservationSample(s, action) ==
    /\ ret = NoCall
    /\ ret' = [op |-> "ObservationModel.sample", state |-> s, action |-> action,
               result |-> ObservationModel_sample(ObservationModel(maze_map),
                                                  s, action)]
    /\ UNCHANGED <<maze_map, slip_prob, state, rng, rollouts, driver>>

ObservationProbability(observation, s, action) ==
    /\ ret = NoCall
    /\ ret' = [op |-> "ObservationModel.probability",
               observation |-> observation, state |-> s, action |-> action,
               result |-> ObservationModel_probability(
                              ObservationModel(maze_map), observation, s, action)]
    /\ UNCHANGED <<maze_map, slip_prob, state, rng, rollouts, driver>>

NextObservation ==
    \/ /\ ret = NoCall
       /\ \E s \in QueryStates, action \in Actions : ObservationSample(s, action)
    \/ /\ ret = NoCall
       /\ \E s \in QueryStates, action \in Actions, observation \in Observations :
             ObservationProbability(observation, s, action)
    \/ Return

SpecObservation == InitModels /\ [][NextObservation]_vars

\* C8: sample(state, action) is the observation with the walls (North, East,
\* South, West) of the state's position, the state's orientation, and the
\* landmark Goal at the goal, else Start at the start, else None; the action
\* is ignored; on the example maze State((5,2), South) yields Goal.
C8_SampleIsWallsOrientationLandmark ==
    ret.op = "ObservationModel.sample" =>
        LET pos == ret.state.position
        IN  /\ ret.result.walls = << has_wall(maze_map, pos, "North"),
                                     has_wall(maze_map, pos, "East"),
                                     has_wall(maze_map, pos, "South"),
                                     has_wall(maze_map, pos, "West") >>
            /\ ret.result.orientation = ret.state.orientation
            /\ ret.result.location =
                  (IF pos = maze_map.goal THEN "Goal"
                   ELSE IF pos = maze_map.start THEN "Start" ELSE "None")
            /\ \A a \in Actions :
                  ObservationModel_sample(ObservationModel(maze_map),
                                          ret.state, a) = ret.result
            /\ (maze_map = create_example_maze
                    /\ ret.state = [position |-> <<5, 2>>, orientation |-> "South"])
                  => ret.result.location = "Goal"

\* the observation of a cell that is both the start and the goal
C8_Witness ==
    /\ ret.op = "ObservationModel.sample"
    /\ maze_map.start = maze_map.goal
    /\ ret.state.position = maze_map.goal
    /\ ret.result.location = "Goal"
    /\ ret.result.walls = <<TRUE, FALSE, FALSE, TRUE>>

\* C9: probability(o, s, a) is 1.0 when o has the walls, orientation and
\* landmark of sample(s, a) and 0.0 otherwise; exactly one observation has
\* probability 1.0, and one that differs in the landmark alone has 0.0.
C9_ProbabilityIsOneOnSampleOnly ==
    ret.op = "ObservationModel.probability" =>
        LET self == ObservationModel(maze_map)
            expected == ObservationModel_sample(self, ret.state, ret.action)
            same == /\ ret.observation.walls = expected.walls
                    /\ ret.observation.orientation = expected.orientation
                    /\ ret.observation.location = expected.location
        IN  /\ ret.result = (IF same THEN ONE ELSE 0)
            /\ same =>
                  {o \in Observations :
                      ObservationModel_probability(self, o, ret.state, ret.action)
                        = ONE} = {ret.observation}
            /\ ( /\ ret.observation.walls = expected.walls
                 /\ ret.observation.orientation = expected.orientation
                 /\ ret.observation.location # expected.location )
                  => ret.result = 0

\* an observation of the start cell that names it the goal
C9_Witness ==
    /\ ret.op = "ObservationModel.probability"
    /\ ret.state.position = maze_map.start
    /\ ret.observation =
          [ObservationModel_sample(ObservationModel(maze_map), ret.state,
                                   ret.action) EXCEPT !.location = "Goal"]
    /\ maze_map.start # maze_map.goal
    /\ ret.result = 0

---------------------------------------------------------------------------
(* Reward queries                                                          *)

RewardSample(s, action, next_state) ==
    /\ ret = NoCall
    /\ ret' = [op |-> "RewardModel.sample", state |-> s, action |-> action,
               next_state |-> next_state,
               result |-> RewardModel_sample(
                              RewardModel(maze_map, goal_reward, step_penalty,
                                          wall_penalty),
                              s, action, next_state)]
    /\ UNCHANGED <<maze_map, slip_prob, state, rng, rollouts, driver>>

NextReward ==
    \/ /\ ret = NoCall
       /\ \E s \in QueryStates, action \in Actions :
             \E next_state \in NextStatesAround(s)
                               \cup {State(maze_map.goal, o) : o \in Directions} :
                 RewardSample(s, action, next_state)
    \/ Return

SpecReward == InitModels /\ [][NextReward]_vars

\* C10: sample(s, a, s') is +goal_reward when s' is at the goal, whatever s
\* and a are and also when s' is where s is; otherwise -wall_penalty when s'
\* is where s is; otherwise -step_penalty.  On the example maze
\* sample(State((5,6),North), MoveNorth, State((5,5),North)) = -step_penalty.
C10_RewardByPosition ==
    ret.op = "RewardModel.sample" =>
        /\ ret.result =
              (IF ret.next_state.position = maze_map.goal THEN goal_reward
               ELSE IF ret.next_state.position = ret.state.position
                    THEN -wall_penalty
                    ELSE -step_penalty)
        /\ (ret.next_state.position = maze_map.goal
               /\ ret.next_state.position = ret.state.position)
              => ret.result = goal_reward
        /\ ( /\ maze_map = create_example_maze
             /\ ret.state = [position |-> <<5, 6>>, orientation |-> "North"]
             /\ ret.action = [name |-> "North"]
             /\ ret.next_state = [position |-> <<5, 5>>, orientation |-> "North"] )
              => ret.result = -step_penalty

\* the reward of staying on the goal cell
C10_Witness ==
    /\ ret.op = "RewardModel.sample"
    /\ ret.next_state.position = maze_map.goal
    /\ ret.next_state.position = ret.state.position
    /\ ret.result = goal_reward


---------------------------------------------------------------------------
(* The rewards of the environment                                          *)

---------------------------------------------------------------------------
(* The transition scenario of the example maze                             *)

\* C12: on the example maze with slip 0.1, from ((5,6), North) under
\* MoveNorth, probability is 0.8 for ((5,5), North), 0.1 for ((4,6), North)
\* and for ((6,6), North), and 0 for every other next state.
C12_ScenarioProbabilities ==
    ( /\ ret.op = "TransitionModel.probability"
      /\ maze_map = create_example_maze
      /\ slip_prob = 1
      /\ ret.state = [position |-> <<5, 6>>, orientation |-> "North"]
      /\ ret.action = [name |-> "North"] )
    => ret.result =
          (IF ret.next_state = [position |-> <<5, 5>>, orientation |-> "North"]
           THEN 8
           ELSE IF ret.next_state \in
                      {[position |-> <<4, 6>>, orientation |-> "North"],
                       [position |-> <<6, 6>>, orientation |-> "North"]}
                THEN 1
                ELSE 0)

\* the scenario asked about the cell to the East
C12_Witness ==
    /\ ret.op = "TransitionModel.probability"
    /\ maze_map = create_example_maze
    /\ slip_prob = 1
    /\ ret.state = [position |-> <<5, 6>>, orientation |-> "North"]
    /\ ret.action = [name |-> "North"]
    /\ ret.next_state = [position |-> <<6, 6>>, orientation |-> "North"]
    /\ ret.result = 1


---------------------------------------------------------------------------
(* Construction of the value objects and the unsupported enumerations      *)

\* keys a walls dictionary is built with: the four directions and two others
KeyNames == Directions \cup {"Up", "north"}

\* orientation arguments: names, right and wrong, indices around 0..3, and
\* values that are neither a string nor an int
OrientationArgs ==
    {[str |-> n] : n \in KeyNames}
    \cup {[int |-> i] : i \in -1..4}
    \cup {[other |-> t] : t \in {"None", "float"}}

\* position arguments, of length 0 to 3
PositionArgs == {<<>>, <<5>>, <<0, 0>>, <<5, 6>>, <<5, 6, 0>>}

\* walls arguments: every 4-tuple of flags, and sequences too short and too
\* long, as a tuple, a list and a set
WallsArgs ==
    {[type |-> t, items |-> w] :
        t \in {"tuple", "list", "set"},
        w \in [1..4 -> BOOLEAN] \cup {<<>>, <<TRUE, FALSE, TRUE>>,
                                      <<TRUE, FALSE, TRUE, FALSE, TRUE>>}}

InitErrors ==
    /\ maze_map \in ModelMazes
    /\ slip_prob \in 0..MaxSlip
    /\ state = State(maze_map.start, "North")
    /\ ret = NoCall
    /\ NoRun

NewMazeMap(start, goal, walls) ==
    /\ ret = NoCall
    /\ ret' = [op |-> "MazeMap", start |-> start, goal |-> goal, walls |-> walls,
               result |-> MazeMap__init__(start, goal, walls)]
    /\ UNCHANGED <<maze_map, slip_prob, state, rng, rollouts, driver>>

NewState(position, orientation) ==
    /\ ret = NoCall
    /\ ret' = [op |-> "State", position |-> position, orientation |-> orientation,
               result |-> State__init__(position, orientation)]
    /\ UNCHANGED <<maze_map, slip_prob, state, rng, rollouts, driver>>

NewObservation(walls, orientation, location) ==
    /\ ret = NoCall
    /\ ret' = [op |-> "Observation", walls |-> walls, orientation |-> orientation,
               location |-> location,
               result |-> Observation__init__(walls, orientation, location)]
    /\ UNCHANGED <<maze_map, slip_prob, state, rng, rollouts, driver>>

GetAllStates ==
    /\ ret = NoCall
    /\ ret' = [op |-> "get_all_states",
               result |-> get_all_states(TransitionModel(slip_prob, maze_map))]
    /\ UNCHANGED <<maze_map, slip_prob, state, rng, rollouts, driver>>

GetAllObservations ==
    /\ ret = NoCall
    /\ ret' = [op |-> "get_all_observations",
               result |-> get_all_observations(ObservationModel(maze_map))]
    /\ UNCHANGED <<maze_map, slip_prob, state, rng, rollouts, driver>>

NextErrors ==
    \/ /\ ret = NoCall
       /\ \E K \in SUBSET KeyNames, L \in {<<>>, <<Seg(0, 0, 1, 0)>>} :
             NewMazeMap(<<0, 0>>, <<1, 1>>, [d \in K |-> L])
    \/ /\ ret = NoCall
       /\ \E position \in PositionArgs, orientation \in OrientationArgs :
             NewState(position, orientation)
    \/ /\ ret = NoCall
       /\ \E walls \in WallsArgs, orientation \in OrientationArgs,
             location \in {"Goal", "Start", "None"} :
             NewObservation(walls, orientation, location)
    \/ GetAllStates
    \/ GetAllObservations
    \/ Return

SpecErrors == InitErrors /\ [][NextErrors]_vars

\* C13: constructing a MazeMap fails with ValueError exactly when the walls
\* mapping has a key outside North, East, South, West; with any subset of the
\* four as keys, the empty one included, the map is built.
C13_ValueErrorIffForeignKey ==
    ret.op = "MazeMap" =>
        /\ ret.result = [raised |-> "ValueError"]
              <=> \E k \in DOMAIN ret.walls :
                      k \notin {"North", "East", "South", "West"}
        /\ DOMAIN ret.walls \subseteq {"North", "East", "South", "West"}
              => ret.result = [start |-> ret.start, goal |-> ret.goal,
                               walls |-> ret.walls]

\* a dictionary with three good keys and one foreign key is rejected
C13_Witness ==
    /\ ret.op = "MazeMap"
    /\ DOMAIN ret.walls = {"North", "East", "South", "Up"}
    /\ ret.result = [raised |-> "ValueError"]

\* the name of the orientation index i: North = 0, East = 1, South = 2, West = 3
NameOfIndex(i) ==
    CASE i = 0 -> "North" [] i = 1 -> "East" [] i = 2 -> "South" [] i = 3 -> "West"

IsDirectionName(orientation) ==
    /\ "str" \in DOMAIN orientation
    /\ orientation.str \in {"North", "East", "South", "West"}

IsDirectionIndex(orientation) ==
    /\ "int" \in DOMAIN orientation
    /\ orientation.int \in 0..3

\* C14: State(position, orientation) fails with ValueError exactly when the
\* position has not length 2 or the orientation is neither a direction name
\* nor an index 0..3, and State(p, i) equals State(p, name_i); Observation
\* fails with ValueError when walls has not length 4 or the orientation is
\* not a direction name.
C14_MalformedValuesRejected ==
    /\ (ret.op = "State") =>
          /\ ret.result = [raised |-> "ValueError"]
                <=> \/ Len(ret.position) # 2
                    \/ ~(IsDirectionName(ret.orientation)
                           \/ IsDirectionIndex(ret.orientation))
          /\ (Len(ret.position) = 2 /\ IsDirectionIndex(ret.orientation))
                => ret.result =
                      State__init__(ret.position,
                                    [str |-> NameOfIndex(ret.orientation.int)])
          /\ (Len(ret.position) = 2 /\ IsDirectionName(ret.orientation))
                => ret.result = [position |-> ret.position,
                                 orientation |-> ret.orientation.str]
    /\ (ret.op = "Observation"
          /\ (Len(ret.walls.items) # 4 \/ ~IsDirectionName(ret.orientation)))
              => ret.result = [raised |-> "ValueError"]

\* the index 3 is accepted and normalised to West
C14_Witness ==
    /\ ret.op = "State"
    /\ ret.orientation = [int |-> 3]
    /\ ret.result = [position |-> <<5, 6>>, orientation |-> "West"]

---------------------------------------------------------------------------
(* The operations of the domain model, interleaved on one environment      *)

\* every read of the map, every model call and every step of the environment,
\* made in any order on the state the environment is in
NextAll ==
    \/ /\ ret = NoCall
       /\ \E direction \in Directions : HasWall(state.position, direction)
    \/ /\ ret = NoCall
       /\ GetValidActions(state.position, state.orientation)
    \/ /\ ret = NoCall
       /\ \E action \in Actions, rand \in Draws :
             TransitionSample(state, action, rand)
    \/ /\ ret = NoCall
       /\ \E action \in Actions, next_state \in NextStatesAround(state) :
             TransitionProbability(next_state, state, action)
    \/ /\ ret = NoCall
       /\ \E action \in Actions : ObservationSample(state, action)
    \/ /\ ret = NoCall
       /\ \E action \in Actions, observation \in Observations :
             ObservationProbability(observation, state, action)
    \/ /\ ret = NoCall
       /\ \E action \in Actions, next_state \in NextStatesAround(state) :
             RewardSample(state, action, next_state)
    \/ /\ ret = NoCall
       /\ \E action \in Actions, execute \in BOOLEAN, rand \in Draws :
             StateTransition(action, execute, rand)
    \/ Return

SpecAll == InitModels /\ [][NextAll]_vars

\* C16: no operation changes the map: has_wall, get_valid_actions, the sample
\* and probability of the transition and observation models, the sample of the
\* reward model and state_transition, in any interleaving, leave the start,
\* the goal and the walls of the map as they were at construction.
C16_MapNeverChanges ==
    [][ /\ maze_map' = maze_map
        /\ maze_map'.start = maze_map.start
        /\ maze_map'.goal = maze_map.goal
        /\ maze_map'.walls = maze_map.walls ]_vars

\* has_wall asked, for a direction the walls dictionary has no key for, after
\* the environment has stepped away from the start
C16_Witness ==
    /\ ret.op = "has_wall"
    /\ ret.direction \notin DOMAIN maze_map.walls
    /\ state.position # maze_map.start


---------------------------------------------------------------------------
(* The two modes of state_transition                                       *)

\* C19: state_transition(action, execute) samples a next state from the state
\* the environment is in and returns the reward of (that state, the action,
\* the sampled state); with execute the sampled state becomes the state of the
\* environment, without it the state stays as it was.
C19_ExecuteReplacesElseKeeps ==
    [][ ret'.op = "state_transition" =>
          LET sampled ==
                  TransitionModel_sample(TransitionModel(slip_prob, maze_map),
                                         state, ret'.action, ret'.rand).next_state
          IN  /\ ret'.result =
                    RewardModel_sample(
                        RewardModel(maze_map, goal_reward, step_penalty,
                                    wall_penalty),
                        state, ret'.action, sampled)
              /\ ret'.execute => state' = sampled
              /\ ~ret'.execute => state' = state ]_vars

\* a call without execute that samples the goal: the goal reward is returned
\* and the environment is still where it was
C19_Witness ==
    /\ ret.op = "state_transition"
    /\ ~ret.execute
    /\ ret.result = goal_reward
    /\ ret.next_state.position = maze_map.goal
    /\ state = ret.state
    /\ state.position # maze_map.goal


---------------------------------------------------------------------------
(* The rule-based goal detector on the example maze                        *)

\* C20: on the example maze the observation sampled at the goal cell (5, 2)
\* with orientation South has walls on North, East and West and none on
\* South, so that is_goal() is true for it, as its location Goal says.
C20_GoalDetectorFiresAtGoal ==
    ( /\ ret.op = "ObservationModel.sample"
      /\ maze_map = create_example_maze
      /\ ret.state = State(<<5, 2>>, "South") )
        => /\ ret.result.location = "Goal"
           /\ ret.result.walls = <<TRUE, TRUE, FALSE, TRUE>>
           /\ is_goal(ret.result)


---------------------------------------------------------------------------
(* Rollouts drawing from the random module                                 *)

\* bounds of the rollouts: the seeds tried and the steps of a rollout
MaxSeed == 3
MaxDepth == 2

\* the rollouts running at the same time
Rollouts == {1, 2}

\* The generator of the random module is one object of the process, seeded
\* once; g.x counts the draws made from it since. Stream(seed, k) stands for
\* the k-th value the generator gives after random.seed(seed): a fixed
\* function of the seed and the number of draws made before.
Stream(seed, k) == ((seed + k) * (seed + k) + 3 * k + seed) % (4 * (ONE + 1))

\* random.uniform(0, 1) on the grid of the fixed-point unit
random_uniform(g) == Stream(g.seed, g.x) % (ONE + 1)

\* random.choice(seq)
random_choice(g, seq) == seq[(Stream(g.seed, g.x) % Len(seq)) + 1]

\* the generator after a draw
drawn(g) == [g EXCEPT !.x = @ + 1]

\* PolicyModel.sample: an action chosen uniformly with random.choice
PolicyModel_sample(g) == random_choice(g, get_all_actions)

InitRollouts ==
    /\ maze_map = create_example_maze
    /\ slip_prob \in {DefaultSlip, 3}
    /\ state = State(maze_map.start, "North")
    /\ ret = NoCall
    /\ \E seed \in 0..MaxSeed : rng = [seed |-> seed, x |-> 0]
    /\ rollouts = [r \in Rollouts |->
                      [pc |-> "policy", state |-> state,
                       action |-> get_all_actions[1], trace |-> <<>>]]
    /\ driver = [pc |-> "none"]

\* rollout r asks the policy for an action: one draw of the shared generator
RolloutPolicy(r) ==
    /\ rollouts[r].pc = "policy"
    /\ rollouts' = [rollouts EXCEPT ![r].action = PolicyModel_sample(rng),
                                    ![r].pc = "transition"]
    /\ rng' = drawn(rng)
    /\ UNCHANGED <<maze_map, slip_prob, state, ret, driver>>

\* rollout r samples its next state: one draw of the shared generator
RolloutTransition(r) ==
    /\ rollouts[r].pc = "transition"
    /\ LET next_state ==
               TransitionModel_sample(TransitionModel(slip_prob, maze_map),
                                      rollouts[r].state, rollouts[r].action,
                                      random_uniform(rng)).next_state
           trace == Append(rollouts[r].trace, next_state)
       IN  rollouts' = [rollouts EXCEPT
                           ![r].state = next_state,
                           ![r].trace = trace,
                           ![r].pc = IF Len(trace) >= MaxDepth THEN "done"
                                     ELSE "policy"]
    /\ rng' = drawn(rng)
    /\ UNCHANGED <<maze_map, slip_prob, state, ret, driver>>

NextRollouts ==
    \/ \E r \in Rollouts : RolloutPolicy(r)
    \/ \E r \in Rollouts : RolloutTransition(r)

SpecRollouts == InitRollouts /\ [][NextRollouts]_vars

\* the next states a rollout of n steps obtains from state s when every draw
\* it makes is the next one of a generator g no other rollout draws from
RECURSIVE RolloutAlone(_, _, _)
RolloutAlone(g, s, n) ==
    IF n = 0 THEN <<>>
    ELSE LET action == PolicyModel_sample(g)
             next_state ==
                 TransitionModel_sample(TransitionModel(slip_prob, maze_map),
                                        s, action,
                                        random_uniform(drawn(g))).next_state
         IN  <<next_state>> \o RolloutAlone(drawn(drawn(g)), next_state, n - 1)

\* C17: under a fixed seed each of two concurrent rollouts draws from a stream
\* of its own, so that the next states a rollout has obtained are, under every
\* interleaving with the other rollout, the ones it obtains from the seed when
\* no other rollout draws.
C17_RolloutStreamsIndependent ==
    \A r \in DOMAIN rollouts :
        rollouts[r].trace =
            SubSeq(RolloutAlone([seed |-> rng.seed, x |-> 0],
                                State(maze_map.start, "North"), MaxDepth),
                   1, Len(rollouts[r].trace))


---------------------------------------------------------------------------
(* The driver loop: solve(maze_problem, planner, max_steps)                *)

\* bound of max_steps
MaxSteps == 3

\* the driver before its first iteration; updates counts the calls of
\* agent.update_history and planner.update made; current_state, next_state and
\* real_observation are the locals of the loop body, previous_next_state the
\* next_state of the iteration before
InitSolve ==
    /\ maze_map \in ModelMazes
    /\ slip_prob = DefaultSlip
    /\ state = State(maze_map.start, "North")
    /\ ret = NoCall
    /\ rng = [seed |-> 0, x |-> 0]
    /\ rollouts = <<>>
    /\ \E max_steps \in 0..MaxSteps :
          driver = [pc |-> "for", step |-> 0, max_steps |-> max_steps,
                    total_reward |-> 0,
                    current_state |-> state, next_state |-> state,
                    previous_next_state |-> state,
                    real_action |-> get_all_actions[1],
                    real_observation |->
                        _get_observation(ObservationModel(maze_map), state),
                    updates |-> 0]

\* the for loop without its break: after the goal is sampled the next
\* iteration follows
SolveIteration_no_break(real_action, rand) ==
    /\ driver.pc = "for"
    /\ driver.step < driver.max_steps
    /\ LET current_state == state
           next_state ==
               TransitionModel_sample(TransitionModel(slip_prob, maze_map),
                                      current_state, real_action, rand).next_state
           reward ==
               RewardModel_sample(
                   RewardModel(maze_map, goal_reward, step_penalty, wall_penalty),
                   current_state, real_action, next_state)
           real_observation ==
               ObservationModel_sample(ObservationModel(maze_map), next_state,
                                       real_action)
       IN  driver' = [driver EXCEPT
                         !.step = @ + 1,
                         !.total_reward = @ + reward,
                         !.current_state = current_state,
                         !.next_state = next_state,
                         !.previous_next_state = driver.next_state,
                         !.real_action = real_action,
                         !.real_observation = real_observation,
                         !.updates = @ + 1]
    /\ UNCHANGED <<maze_map, slip_prob, state, ret, rng, rollouts>>

\* one iteration of the for loop: real_action is the action planner.plan
\* returns, rand the draw of transition_model.sample. env.state is read and
\* never assigned; the loop ends at input(...) when the goal is sampled.
SolveIteration(real_action, rand) ==
    /\ driver.pc = "for"
    /\ driver.step < driver.max_steps
    /\ LET current_state == state
           next_state ==
               TransitionModel_sample(TransitionModel(slip_prob, maze_map),
                                      current_state, real_action, rand).next_state
           reward ==
               RewardModel_sample(
                   RewardModel(maze_map, goal_reward, step_penalty, wall_penalty),
                   current_state, real_action, next_state)
           real_observation ==
               ObservationModel_sample(ObservationModel(maze_map), next_state,
                                       real_action)
       IN  driver' = [driver EXCEPT
                         !.step = @ + 1,
                         !.total_reward = @ + reward,
                         !.current_state = current_state,
                         !.next_state = next_state,
                         !.previous_next_state = driver.next_state,
                         !.real_action = real_action,
                         !.real_observation = real_observation,
                         !.updates = @ + 1,
                         !.pc = IF next_state.position = maze_map.goal
                                THEN "input" ELSE "for"]
    /\ UNCHANGED <<maze_map, slip_prob, state, ret, rng, rollouts>>

\* input("Press Enter to continue...") returns and the loop is left
SolveInput ==
    /\ driver.pc = "input"
    /\ driver' = [driver EXCEPT !.pc = "done"]
    /\ UNCHANGED <<maze_map, slip_prob, state, ret, rng, rollouts>>

\* input(...) on an input that has ended: EOFError leaves solve
SolveInputEOF ==
    /\ driver.pc = "input"
    /\ driver' = [driver EXCEPT !.pc = "raised"]
    /\ UNCHANGED <<maze_map, slip_prob, state, ret, rng, rollouts>>

\* range(max_steps) is exhausted
SolveExhausted ==
    /\ driver.pc = "for"
    /\ driver.step >= driver.max_steps
    /\ driver' = [driver EXCEPT !.pc = "done"]
    /\ UNCHANGED <<maze_map, slip_prob, state, ret, rng, rollouts>>

NextSolve ==
    \/ /\ driver.pc = "for"
       /\ \E real_action \in Actions, rand \in Draws :
             SolveIteration(real_action, rand)
    \/ SolveInput
    \/ SolveInputEOF
    \/ SolveExhausted

SpecSolve == InitSolve /\ [][NextSolve]_vars

\* the for loop goes on as long as it can: an iteration, or the end of the
\* range, is eventually taken (the return of input is up to the user)
SolveLoop ==
    \/ \E real_action \in Actions, rand \in Draws :
           SolveIteration(real_action, rand)
    \/ SolveExhausted

SpecSolveFair == SpecSolve /\ WF_vars(SolveLoop)

\* C18: in the driver loop the true state advances: from the second iteration
\* on, the state an iteration samples its transition and reward from is the
\* next state the iteration before sampled.
C18_TrueStateAdvances ==
    (driver.pc # "none" /\ driver.step >= 2) =>
        driver.current_state = driver.previous_next_state


---------------------------------------------------------------------------
(* The rule-based start detector on the example maze                       *)

\* C21: on the example maze, for every cell of the 11 x 7 grid and the
\* orientation North, is_start() of the sampled observation is true exactly
\* when the cell is the start (5, 6), that is exactly when the location of
\* the observation is Start.
C21_StartDetectorOnlyAtStart ==
    ( /\ ret.op = "ObservationModel.sample"
      /\ maze_map = create_example_maze
      /\ ret.state.orientation = "North"
      /\ ret.state.position \in (0..10) \X (0..6) )
        => /\ is_start(ret.result) <=> ret.state.position = <<5, 6>>
           /\ is_start(ret.result) <=> ret.result.location = "Start"


---------------------------------------------------------------------------
(* The end of the driver loop                                              *)

\* C22: solve makes at most max_steps iterations, whatever the planner
\* returns and the draws are, and leaves the loop; it stops at the first
\* iteration that samples the goal: afterwards no action is planned, nothing
\* sampled and the history not extended; and the total reward is the sum of
\* the rewards of the iterations made, each iteration adding its own.
C22_LoopEndsAtGoalOrMaxSteps ==
    /\ [][ /\ driver'.step <= driver'.max_steps
           /\ driver'.updates = driver'.step
           /\ driver'.step # driver.step =>
                 /\ driver'.step = driver.step + 1
                 /\ driver.pc = "for"
                 /\ driver.step = 0 \/ driver.next_state.position # maze_map.goal
                 /\ driver'.total_reward - driver.total_reward =
                       RewardModel_sample(
                           RewardModel(maze_map, goal_reward, step_penalty,
                                       wall_penalty),
                           state, driver'.real_action, driver'.next_state)
                 /\ driver'.pc = IF driver'.next_state.position = maze_map.goal
                                 THEN "input" ELSE "for"
           /\ driver'.step = driver.step =>
                 /\ driver' = [driver EXCEPT !.pc = driver'.pc]
                 /\ driver'.pc \in {"done", "raised"}
           /\ driver'.pc = "done" =>
                 driver'.total_reward =
                     IF driver'.step > 0
                        /\ driver'.next_state.position = maze_map.goal
                     THEN goal_reward - step_penalty * (driver'.step - 1)
                     ELSE 0 - step_penalty * driver'.step ]_vars
    /\ <>(driver.pc \in {"input", "done", "raised"})

\* the goal sampled at the second of three iterations allowed: the loop has
\* ended with the total reward of two iterations
C22_Witness ==
    /\ driver.pc = "done"
    /\ driver.max_steps = 3
    /\ driver.step = 2
    /\ driver.next_state.position = maze_map.goal
    /\ driver.total_reward = goal_reward - step_penalty


---------------------------------------------------------------------------
(* The identity of actions: MazeAction.__eq__ and __hash__                 *)

\* MazeAction.__init__ for an object of the given class
MazeAction__init__(class, name) == [class |-> class, name |-> name]

\* the four subclasses, each passing its direction to MazeAction.__init__
MoveNorth == MazeAction__init__("MoveNorth", "North")
MoveSouth == MazeAction__init__("MoveSouth", "South")
MoveEast == MazeAction__init__("MoveEast", "East")
MoveWest == MazeAction__init__("MoveWest", "West")

\* the list get_all_actions() builds, with the class of each object
get_all_actions_objects == <<MoveNorth, MoveSouth, MoveEast, MoveWest>>

\* __eq__ taking only objects of the same class for equal
MazeAction__eq__same_class(self, other) ==
    IF "class" \in DOMAIN other
    THEN self.class = other.class /\ self.name = other.name
    ELSE IF "str" \in DOMAIN other THEN self.name = other.str
    ELSE FALSE

\* MazeAction.__eq__: another MazeAction is compared by name, a string with
\* the name, anything else is unequal
MazeAction__eq__(self, other) ==
    IF "class" \in DOMAIN other THEN self.name = other.name
    ELSE IF "str" \in DOMAIN other THEN self.name = other.str
    ELSE FALSE

\* MazeAction.__hash__: the hash of the name
MazeAction__hash__(self) == [hash_of_str |-> self.name]

\* the actions compared: the four subclasses' objects and MazeAction objects
\* built with any name
ActionObjects ==
    {get_all_actions_objects[i] : i \in 1..Len(get_all_actions_objects)}
    \cup {MazeAction__init__("MazeAction", n) : n \in KeyNames}

\* what an action is compared with: actions, strings and other values
ActionOthers ==
    ActionObjects \cup {[str |-> n] : n \in KeyNames} \cup {[other |-> "None"]}

ActionEq(self, other) ==
    /\ ret = NoCall
    /\ ret' = [op |-> "MazeAction.__eq__", self |-> self, other |-> other,
               result |-> MazeAction__eq__(self, other)]
    /\ UNCHANGED <<maze_map, slip_prob, state, rng, rollouts, driver>>

ActionHash(self) ==
    /\ ret = NoCall
    /\ ret' = [op |-> "MazeAction.__hash__", self |-> self,
               result |-> MazeAction__hash__(self)]
    /\ UNCHANGED <<maze_map, slip_prob, state, rng, rollouts, driver>>

GetAllActions ==
    /\ ret = NoCall
    /\ ret' = [op |-> "get_all_actions", result |-> get_all_actions_objects]
    /\ UNCHANGED <<maze_map, slip_prob, state, rng, rollouts, driver>>

NextActions ==
    \/ /\ ret = NoCall
       /\ \E self \in ActionObjects, other \in ActionOthers : ActionEq(self, other)
    \/ /\ ret = NoCall
       /\ \E self \in ActionObjects : ActionHash(self)
    \/ GetAllActions
    \/ Return

SpecActions == InitModels /\ [][NextActions]_vars

\* C23: two actions are equal exactly when their direction names are equal,
\* whichever class built them, and equal actions have the same hash;
\* get_all_actions() returns four actions, pairwise unequal, one for each of
\* North, South, East and West.
C23_ActionsEqualByName ==
    /\ (ret.op = "MazeAction.__eq__" /\ "class" \in DOMAIN ret.other) =>
          /\ ret.result <=> ret.self.name = ret.other.name
          /\ ret.result =>
                MazeAction__hash__(ret.self) = MazeAction__hash__(ret.other)
    /\ ret.op = "MazeAction.__hash__" =>
          \A b \in ActionObjects :
              ret.self.name = b.name <=> MazeAction__hash__(b) = ret.result
    /\ ret.op = "get_all_actions" =>
          /\ Len(ret.result) = 4
          /\ \A i, j \in 1..Len(ret.result) :
                i # j => ~MazeAction__eq__(ret.result[i], ret.result[j])
          /\ \A d \in {"North", "South", "East", "West"} :
                \E i \in 1..Len(ret.result) : ret.result[i].name = d

\* MazeAction("North") compared with MoveNorth(): equal, of different classes
C23_Witness ==
    /\ ret.op = "MazeAction.__eq__"
    /\ ret.self = MazeAction__init__("MazeAction", "North")
    /\ ret.other = MoveNorth
    /\ ret.result


---------------------------------------------------------------------------
(* The walls of the example maze and the cells of its grid                 *)

\* the cells of the 11 x 7 grid of the example maze
ExampleGrid == (0..10) \X (0..6)

\* C24: on the example maze a wall between two adjacent cells of the grid is
\* seen from both: when b is the cell _move_in_direction reaches from a in
\* direction d, has_wall(a, d) equals has_wall(b, opposite of d).
C24_WallsSeenFromBothSides ==
    ( /\ ret.op = "has_wall"
      /\ maze_map = create_example_maze
      /\ ret.position \in ExampleGrid
      /\ _move_in_direction(ret.position, ret.direction) \in ExampleGrid )
        => ret.result =
              has_wall(maze_map, _move_in_direction(ret.position, ret.direction),
                       Opposite(ret.direction))

\* C25: the example maze is enclosed: for a cell on the outer edge of the
\* grid has_wall is true in the outward direction (North for y = 0, South
\* for y = 6, West for x = 0, East for x = 10), and get_valid_actions offers
\* no direction that leaves the grid.
C25_GridEnclosed ==
    /\ ( /\ ret.op = "has_wall"
         /\ maze_map = create_example_maze
         /\ ret.position \in ExampleGrid
         /\ _move_in_direction(ret.position, ret.direction) \notin ExampleGrid )
           => ret.result
    /\ ( /\ ret.op = "get_valid_actions"
         /\ maze_map = create_example_maze
         /\ ret.position \in ExampleGrid )
           => \A i \in 1..Len(ret.result) :
                  _move_in_direction(ret.position, ret.result[i]) \in ExampleGrid


---------------------------------------------------------------------------
(* Walking the example maze along its valid actions                        *)

InitWalk ==
    /\ maze_map = create_example_maze
    /\ slip_prob = DefaultSlip
    /\ \E o \in Directions : state = State(maze_map.start, o)
    /\ ret = NoCall
    /\ NoRun

\* one step of a walk: a direction get_valid_actions offers at the cell being
\* left is taken with _move_in_direction, inside the grid
Walk(direction) ==
    /\ \E i \in 1..Len(get_valid_actions(maze_map, state.position, state.orientation)) :
          get_valid_actions(maze_map, state.position, state.orientation)[i] = direction
    /\ _move_in_direction(state.position, direction) \in ExampleGrid
    /\ state' = State(_move_in_direction(state.position, direction),
                      state.orientation)
    /\ ret' = [op |-> "walk", position |-> state.position,
               direction |-> direction]
    /\ UNCHANGED <<maze_map, slip_prob, rng, rollouts, driver>>

NextWalk == \E direction \in Directions : Walk(direction)

SpecWalk == InitWalk /\ [][NextWalk]_vars

\* the moves get_valid_actions offers at the cell p, as the cells they lead to
ValidMoves(m, p) ==
    {_move_in_direction(p, get_valid_actions(m, p, "North")[i]) :
        i \in 1..Len(get_valid_actions(m, p, "North"))}

\* the cells of the grid reached by steps along valid actions: S are the cells
\* reached so far, F those of them reached last
RECURSIVE WalkableFrom(_, _, _)
WalkableFrom(m, S, F) ==
    LET N == (UNION {ValidMoves(m, p) : p \in F} \cap ExampleGrid) \ S
    IN  IF N = {} THEN S ELSE WalkableFrom(m, S \cup N, N)

\* the cells of the example maze a walk from its start reaches
ExampleWalkable ==
    WalkableFrom(create_example_maze, {create_example_maze.start},
                 {create_example_maze.start})

\* C26: on the example maze the goal (5, 2) is reached from the start (5, 6)
\* by a finite sequence of cells of the grid, each step taking a direction
\* that get_valid_actions offers at the cell being left; the walk never
\* leaves the cells so reached.
C26_GoalReachableFromStart ==
    /\ maze_map.start = <<5, 6>>
    /\ maze_map.goal = <<5, 2>>
    /\ maze_map.goal \in ExampleWalkable
    /\ state.position \in ExampleWalkable

\* the walk has arrived at the goal, entering it from the cell north of it
C26_Witness ==
    /\ ret.op = "walk"
    /\ state.position = maze_map.goal
    /\ ret.position = <<5, 1>>
    /\ ret.direction = "South"


---------------------------------------------------------------------------
(* The range of the transition probabilities                               *)

\* C27: for every slip value the constructor of TransitionModel accepts,
\* probability(next_state, state, action) lies between 0 and 1 (0 and ONE in
\* the fixed-point unit); the probability 1 - 2 * slip of the intended
\* direction is never negative.
C27_ProbabilityInUnitInterval ==
    ret.op = "TransitionModel.probability" =>
        /\ 0 <= ret.result
        /\ ret.result <= ONE

===========================================================================
